---------------------------- MODULE Spec2Model ----------------------------
(***************************************************************************)
(* Model of treechart.py: the parameter tokenizer (split_parameters), the  *)
(* label formatter (format_node_label) and the tree builder               *)
(* (build_tree_dot).                                                       *)
(*                                                                         *)
(* Text is modelled as a sequence of one-character strings, so that        *)
(* trimming, lower-casing, substring search and regular-expression         *)
(* splitting are computed character by character as Python does.           *)
(***************************************************************************)
EXTENDS Integers, Sequences, FiniteSets, TLC

VARIABLES
    df,        \* the uploaded dataset: a sequence of rows (pd.read_excel)
    hashseed,  \* the per-process key of Python's str hash (PYTHONHASHSEED)
    settings,  \* the style configuration chosen in the sidebar
    result,    \* outcome of the last build_tree_dot call
    cell,      \* argument of the last split_parameters call
    toks       \* value returned by the last split_parameters call

vars == <<df, hashseed, settings, result, cell, toks>>

(***************************************************************************)
(* Bounds of the model                                                     *)
(***************************************************************************)
MaxAtoms == 3      \* a tokenizer input is made of at most MaxAtoms atoms
MaxRows == 2       \* rows of a dataset with parameter cells
MaxCountRows == 3  \* rows of a dataset that only varies the verdicts
MaxMessyRows == 1  \* rows of a dataset with free-form verdict texts
NumSeeds == 2      \* hash keys a process can draw
HashBits == 4      \* width of a hash value (64 in CPython)
MaxLabelCount == 3 \* largest count and total of a formatted label

(***************************************************************************)
(* Python values                                                           *)
(***************************************************************************)
\* Values that are not text; no text has a character of these names.
None == << "<None>" >>          \* Python's None (row.get of a column the sheet lacks)
NaN == << "<NaN>" >>            \* pandas' missing cell
NoColumn == << "<NoColumn>" >>  \* field of a row whose sheet lacks the column

\* str(x) / astype(str): a missing cell becomes the text "nan"
py_str(v) == IF v = NaN THEN <<"n","a","n">> ELSE v

Min(S) == CHOOSE x \in S : \A y \in S : x <= y
Max(S) == CHOOSE x \in S : \A y \in S : x >= y
Range(s) == {s[i] : i \in 1..Len(s)}

RECURSIVE Flatten(_)
Flatten(ss) == IF ss = <<>> THEN <<>> ELSE Head(ss) \o Flatten(Tail(ss))

\* str.strip() without argument and the regex class \s strip / match these
Whitespace == {" ", "\t", "\n", "\r", "\f"}

UpperChars == <<"A","B","C","D","E","F","G","H","I","J","K","L","M",
                "N","O","P","Q","R","S","T","U","V","W","X","Y","Z">>
LowerChars == <<"a","b","c","d","e","f","g","h","i","j","k","l","m",
                "n","o","p","q","r","s","t","u","v","w","x","y","z">>
DigitChars == <<"0","1","2","3","4","5","6","7","8","9">>

\* the regex class \w, on which the word boundary \b is defined
WordChars == Range(UpperChars) \cup Range(LowerChars) \cup Range(DigitChars) \cup {"_"}

lower_char(c) ==
    IF c \in Range(UpperChars)
    THEN LowerChars[CHOOSE i \in 1..26 : UpperChars[i] = c]
    ELSE c

\* str.lower()
lower(s) == [i \in 1..Len(s) |-> lower_char(s[i])]

\* str.strip(chars): drop leading and trailing characters that are in chars
strip_chars(s, chars) ==
    LET keep == {i \in 1..Len(s) : s[i] \notin chars}
    IN IF keep = {} THEN <<>> ELSE SubSeq(s, Min(keep), Max(keep))

\* str.strip()
strip(s) == strip_chars(s, Whitespace)

\* needle in hay
contains(hay, needle) ==
    \E i \in 0..(Len(hay) - Len(needle)) : SubSeq(hay, i + 1, i + Len(needle)) = needle

\* re.split: m[i] is the length of the pattern's match starting at position
\* i (0 when there is none); the scan is leftmost, matches do not overlap.
RECURSIVE re_split(_, _, _, _)
re_split(text, m, i, start) ==
    IF i > Len(text) THEN << SubSeq(text, start, Len(text)) >>
    ELSE IF m[i] > 0
         THEN << SubSeq(text, start, i - 1) >> \o re_split(text, m, i + m[i], i + m[i])
         ELSE re_split(text, m, i + 1, start)

(***************************************************************************)
(* Numbers in text.  Literal text of the program is kept as one element    *)
(* (a chunk such as " Samples; "); formatted values and data are spelled   *)
(* character by character.                                                 *)
(***************************************************************************)
\* str(n) / {n} for n >= 0
RECURSIVE Dec(_)
Dec(n) == IF n < 10 THEN << DigitChars[n + 1] >>
          ELSE Dec(n \div 10) \o << DigitChars[(n % 10) + 1] >>

\* fmt_1f cutting the digits after the first decimal instead of rounding
fmt_1f_truncating(p) ==
    LET q == (p.num * 10) \div p.den
    IN Dec(q \div 10) \o <<".">> \o Dec(q % 10)

\* {p:.1f} of the non-negative value p.num / p.den: the nearest tenth,
\* an exact tie going to the even tenth.  The float n / n_total * 100.0 is
\* within rounding error of the fraction, which matters only next to a tie,
\* and a tie needs n_total to be a multiple of 16.
fmt_1f(p) ==
    LET q == (p.num * 10) \div p.den
        r == (p.num * 10) % p.den
        tenths == IF 2 * r > p.den THEN q + 1
                  ELSE IF 2 * r < p.den THEN q
                  ELSE IF q % 2 = 0 THEN q ELSE q + 1
    IN Dec(tenths \div 10) \o <<".">> \o Dec(tenths % 10)

\* format_node_label without the singular unit
format_node_label_plural_only(title, count, pct) ==
    IF count # <<>> /\ pct # <<>>
    THEN title \o <<"\\n[">> \o Dec(count[1]) \o <<" Samples; ">> \o fmt_1f(pct[1]) \o <<"%]">>
    ELSE IF count # <<>>
    THEN title \o <<"\\n[">> \o Dec(count[1]) \o <<" ">> \o <<"Samples">> \o <<"]">>
    ELSE title

\* An optional argument is <<>> (None) or <<value>>.
format_node_label(title, count, pct) ==
    IF count # <<>> /\ pct # <<>>
    THEN title \o <<"\\n[">> \o Dec(count[1]) \o <<" Samples; ">> \o fmt_1f(pct[1]) \o <<"%]">>
    ELSE IF count # <<>>
    THEN LET unit == IF count[1] = 1 THEN "Sample" ELSE "Samples"
         IN title \o <<"\\n[">> \o Dec(count[1]) \o <<" ">> \o <<unit>> \o <<"]">>
    ELSE title

(***************************************************************************)
(* hash() of a str: keyed by a value drawn when the process starts.  Equal *)
(* strings hash alike within one process and nothing else is guaranteed;   *)
(* the key-dependent mixing below stands for SipHash, with HashBits bits   *)
(* instead of 64 so that the collisions of abs(hash) % 9999 show on short  *)
(* names.                                                                  *)
(***************************************************************************)
\* the characters of codes 32 to 95
Printable ==
    <<" ","!","\"","#","$","%","&","'","(",")","*","+",",","-",".","/",
      "0","1","2","3","4","5","6","7","8","9",":",";","<","=",">","?","@",
      "A","B","C","D","E","F","G","H","I","J","K","L","M",
      "N","O","P","Q","R","S","T","U","V","W","X","Y","Z",
      "[","\\","]","^","_">>

\* the characters from code 97 on (code 96 cannot be written in a string here)
PrintableLow ==
    <<"a","b","c","d","e","f","g","h","i","j","k","l","m",
      "n","o","p","q","r","s","t","u","v","w","x","y","z","{","|","}","~">>

ord(c) ==
    IF c \in Range(Printable) THEN 31 + (CHOOSE i \in 1..Len(Printable) : Printable[i] = c)
    ELSE IF c \in Range(PrintableLow)
    THEN 96 + (CHOOSE i \in 1..Len(PrintableLow) : PrintableLow[i] = c)
    ELSE IF c = "\t" THEN 9 ELSE IF c = "\n" THEN 10
    ELSE IF c = "\f" THEN 12 ELSE IF c = "\r" THEN 13 ELSE 0

RECURSIVE hash_mix(_, _)
hash_mix(s, h) ==
    IF s = <<>> THEN h
    ELSE hash_mix(Tail(s), (h * 31 + ord(Head(s))) % (2 ^ HashBits))

\* hash(s) in a process whose key is seed: a signed HashBits-bit value
hash(s, seed) ==
    LET raw == hash_mix(s, (seed * 7 + 3) % (2 ^ HashBits))
    IN IF raw >= 2 ^ (HashBits - 1) THEN raw - 2 ^ HashBits ELSE raw

abs(n) == IF n < 0 THEN -n ELSE n

HASH_MOD == 9999

(***************************************************************************)
(* Helpers of treechart.py                                                 *)
(***************************************************************************)
COMPLIANT_TOKEN == <<"c","o","m","p","l","i","a","n","t"," ","a","s"," ","p","e","r"," ","f","s","s","r">>
SUBSTANDARD_TOKEN == <<"s","u","b","-","s","t","a","n","d","a","r","d">>
UNSAFE_TOKEN == <<"u","n","s","a","f","e">>
MIS_LABELLED_SET ==
    { <<"m","i","s","-","l","a","b","e","l","l","e","d">>,
      <<"m","i","s","-","l","a","b","e","l","e","d">>,
      <<"m","i","s","b","r","a","n","d","e","d">>,
      <<"m","i","s","-","b","r","a","n","d","e","d">>,
      <<"m","i","s"," ","b","r","a","n","d","e","d">>,
      <<"m","i","s"," ","l","a","b","e","l","l","e","d">>,
      <<"m","i","s"," ","l","a","b","e","l","e","d">> }
PARAM_END_TOKEN == <<"c","o","m","p","l","i","a","n","c","e">>

\* (?i)\bcompliance\b at position i
marker_match(text) ==
    [i \in 1..Len(text) |->
        LET n == Len(PARAM_END_TOKEN)
        IN IF /\ i + n - 1 <= Len(text)
              /\ lower(SubSeq(text, i, i + n - 1)) = PARAM_END_TOKEN
              /\ (i = 1 \/ text[i - 1] \notin WordChars)
              /\ (i + n > Len(text) \/ text[i + n] \notin WordChars)
           THEN n ELSE 0]

\* delim_match with the comma among the delimiters
delim_match_with_comma(text) ==
    [i \in 1..Len(text) |-> IF text[i] \in {"\n", "\r", ";", "|", ","} THEN 1 ELSE 0]

\* [\n\r;|] at position i
delim_match(text) ==
    [i \in 1..Len(text) |-> IF text[i] \in {"\n", "\r", ";", "|"} THEN 1 ELSE 0]

\* ,\s{2,}|, at position i: the first alternative is greedy
comma_match(text) ==
    [i \in 1..Len(text) |->
        IF text[i] # "," THEN 0
        ELSE LET ws == CHOOSE k \in 0..(Len(text) - i) :
                          /\ \A j \in 1..k : text[i + j] \in Whitespace
                          /\ (i + k = Len(text) \/ text[i + k + 1] \notin Whitespace)
             IN IF ws >= 2 THEN 1 + ws ELSE 1]

TrimSet == {" ", ",", ";"}     \* the argument of p.strip(" ,;")

\* split_parameters without the test for None: str(None) is tokenized
split_parameters_str_of_none(cell_value) ==
    LET text == strip(IF cell_value = None THEN <<"N","o","n","e">> ELSE py_str(cell_value)) IN
      IF text = <<>> THEN <<>>
      ELSE IF contains(lower(text), lower(PARAM_END_TOKEN))
      THEN LET pieces == re_split(text, marker_match(text), 1, 1)
               kept == SelectSeq(pieces, LAMBDA p : strip_chars(p, TrimSet) # <<>>)
           IN [k \in 1..Len(kept) |-> strip_chars(kept[k], TrimSet)]
      ELSE LET parts == re_split(text, delim_match(text), 1, 1)
               kept == SelectSeq(parts, LAMBDA p : strip(p) # <<>>)
               out == [k \in 1..Len(kept) |-> strip_chars(kept[k], TrimSet)]
           IN IF out # <<>> THEN out
              ELSE LET cparts == re_split(text, comma_match(text), 1, 1)
                       ckept == SelectSeq(cparts, LAMBDA p : strip(p) # <<>>)
                   IN [k \in 1..Len(ckept) |-> strip(ckept[k])]

split_parameters(cell_value) ==
    IF cell_value = None THEN <<>>
    ELSE LET text == strip(py_str(cell_value)) IN
      IF text = <<>> THEN <<>>
      ELSE IF contains(lower(text), lower(PARAM_END_TOKEN))
      THEN LET pieces == re_split(text, marker_match(text), 1, 1)
               kept == SelectSeq(pieces, LAMBDA p : strip_chars(p, TrimSet) # <<>>)
           IN [k \in 1..Len(kept) |-> strip_chars(kept[k], TrimSet)]
      ELSE LET parts == re_split(text, delim_match(text), 1, 1)
               kept == SelectSeq(parts, LAMBDA p : strip(p) # <<>>)
               out == [k \in 1..Len(kept) |-> strip_chars(kept[k], TrimSet)]
           IN IF out # <<>> THEN out
              ELSE LET cparts == re_split(text, comma_match(text), 1, 1)
                       ckept == SelectSeq(cparts, LAMBDA p : strip(p) # <<>>)
                   IN [k \in 1..Len(ckept) |-> strip(ckept[k])]

\* the return statement that split_parameters leaves by: 0 for the two
\* early returns, 1 for the marker rule, 2 for the delimiter rule, 3 for
\* the comma rule
rule_reached(cell_value) ==
    IF cell_value = None THEN 0
    ELSE LET text == strip(py_str(cell_value)) IN
      IF text = <<>> THEN 0
      ELSE IF contains(lower(text), lower(PARAM_END_TOKEN)) THEN 1
      ELSE LET parts == re_split(text, delim_match(text), 1, 1)
               out == SelectSeq(parts, LAMBDA p : strip(p) # <<>>)
           IN IF out # <<>> THEN 2 ELSE 3

(***************************************************************************)
(* build_tree_dot                                                          *)
(***************************************************************************)
MISSING == <<"(","m","i","s","s","i","n","g",")">>
DEFAULT_TEST_TYPE == <<"O","t","h","e","r">>

\* Series.fillna("(missing)")
fillna(v) == IF v = NaN THEN MISSING ELSE v

\* normalise without the trimming
normalise_untrimmed(v) == lower(py_str(v))

\* Series.astype(str).str.strip().str.lower()
normalise(v) == lower(strip(py_str(v)))

\* row.get(col, default): the default is used when the sheet lacks the column
row_get(row, col, default) == IF row[col] = NoColumn THEN default ELSE row[col]

\* filter_rows without the second filter
filter_rows_any_variant(d, commodity, variant_choice) ==
    SelectSeq(d, LAMBDA r : r.commodity = commodity)

\* filter_rows keeping the rows that pass either filter
filter_rows_either(d, commodity, variant_choice) ==
    SelectSeq(d, LAMBDA r : r.commodity = commodity \/ fillna(r.variant) = variant_choice)

\* the rows of the (commodity, variant) selection
filter_rows(d, commodity, variant_choice) ==
    SelectSeq(d, LAMBDA r : r.commodity = commodity /\ fillna(r.variant) = variant_choice)

\* count_equal that leaves out the rows already counted as unsafe
count_equal_exclusive(rows, col, token) ==
    Cardinality({i \in 1..Len(rows) :
                    /\ normalise(rows[i][col]) = token
                    /\ (col = "overall_safety" \/ normalise(rows[i].overall_safety) # UNSAFE_TOKEN)})

\* (series == token).sum()
count_equal(rows, col, token) ==
    Cardinality({i \in 1..Len(rows) : normalise(rows[i][col]) = token})

\* any(x in s for x in MIS_LABELLED_SET)
is_mis_labelled(s) == \E x \in MIS_LABELLED_SET : contains(s, x)

count_mis_labelled(rows) ==
    Cardinality({i \in 1..Len(rows) : is_mis_labelled(normalise(rows[i].overall_labelling))})

\* grouped[ttype].append(p) on a defaultdict(list), which keeps the order
\* in which its keys were first used
add_param(grouped, ttype, p) ==
    IF \E i \in 1..Len(grouped) : grouped[i].ttype = ttype
    THEN [i \in 1..Len(grouped) |->
            IF grouped[i].ttype = ttype
            THEN [grouped[i] EXCEPT !.plist = Append(@, p)]
            ELSE grouped[i]]
    ELSE Append(grouped, [ttype |-> ttype, plist |-> <<p>>])

\* for p in split_parameters(...): if p.strip(): grouped[ttype].append(p.strip())
RECURSIVE add_params(_, _, _)
add_params(grouped, ttype, ps) ==
    IF ps = <<>> THEN grouped
    ELSE add_params(IF strip(Head(ps)) # <<>>
                    THEN add_param(grouped, ttype, strip(Head(ps)))
                    ELSE grouped,
                    ttype, Tail(ps))

\* for _, row in dfx[series == TOKEN].iterrows(): ...
RECURSIVE group_params(_, _, _)
group_params(rows, cases_col, grouped) ==
    IF rows = <<>> THEN grouped
    ELSE LET row == Head(rows)
             ttype == strip(py_str(row_get(row, "test_type", DEFAULT_TEST_TYPE)))
         IN group_params(Tail(rows), cases_col,
                add_params(grouped, ttype, split_parameters(row_get(row, cases_col, None))))

\* Counter(plist).items(): distinct names in order of first occurrence
RECURSIVE counter(_, _)
counter(plist, acc) ==
    IF plist = <<>> THEN acc
    ELSE LET p == Head(plist)
         IN counter(Tail(plist),
                IF \E i \in 1..Len(acc) : acc[i].pname = p
                THEN [i \in 1..Len(acc) |->
                        IF acc[i].pname = p THEN [acc[i] EXCEPT !.cnt = @ + 1] ELSE acc[i]]
                ELSE Append(acc, [pname |-> p, cnt |-> 1]))

\* statements of the DOT document
NodeStmt(id, label, fill) == [kind |-> "node", id |-> id, label |-> label, fillcolor |-> fill]
EdgeStmt(pairs) == [kind |-> "edges", edges |-> pairs]

\* f"{type_id}_{abs(hash(pname))%9999}"
param_id(type_id, pname, seed) == type_id \o <<"_">> \o Dec(abs(hash(pname, seed)) % HASH_MOD)

\* the two loops over a branch's groups: one node and edge per test type,
\* one node and edge per distinct parameter of the type
branch_stmts(grouped, prefix, parent, seed) ==
    Flatten([j \in 1..Len(grouped) |->
        LET type_id == <<prefix>> \o Dec(j - 1)
            cnts == counter(grouped[j].plist, <<>>)
        IN << NodeStmt(type_id,
                       format_node_label(grouped[j].ttype, <<Len(grouped[j].plist)>>, <<>>),
                       <<>>),
              EdgeStmt(<< <<parent, type_id>> >>) >>
           \o Flatten([k \in 1..Len(cnts) |->
                LET pid == param_id(type_id, cnts[k].pname, seed)
                IN << NodeStmt(pid, format_node_label(cnts[k].pname, <<cnts[k].cnt>>, <<>>), <<>>),
                      EdgeStmt(<< <<type_id, pid>> >>) >>])])

\* records.append([commodity, variant_choice, branch, ttype, pname, cnt])
branch_records(grouped, branch, commodity, variant_choice) ==
    Flatten([j \in 1..Len(grouped) |->
        LET cnts == counter(grouped[j].plist, <<>>)
        IN [k \in 1..Len(cnts) |->
              [commodity |-> commodity, variant |-> variant_choice, branch |-> branch,
               ttype |-> grouped[j].ttype, pname |-> cnts[k].pname, cnt |-> cnts[k].cnt]]])

max(a, b) == IF a >= b THEN a ELSE b

\* pct with an integer division
pct_floor_division(n, n_total) ==
    IF n_total # 0 THEN [num |-> (n * 100) \div n_total, den |-> 1] ELSE [num |-> 0, den |-> 1]

\* pct(n) of build_tree_dot, a value n / n_total * 100.0 kept as a fraction
pct(n, n_total) ==
    IF n_total # 0 THEN [num |-> n * 100, den |-> n_total] ELSE [num |-> 0, den |-> 1]

build_tree_dot(d, commodity, variant_choice, st, seed) ==
    LET dfx == filter_rows(d, commodity, variant_choice)
        n_total == Len(dfx)
        n_compliant == count_equal(dfx, "overall_compliance", COMPLIANT_TOKEN)
        n_noncompliant == n_total - n_compliant
        n_quality_sub == count_equal(dfx, "overall_quality", SUBSTANDARD_TOKEN)
        n_safety_unsafe == count_equal(dfx, "overall_safety", UNSAFE_TOKEN)
        n_lab_mis == count_mis_labelled(dfx)
        qual_grouped ==
            IF n_quality_sub # 0
            THEN group_params(
                     SelectSeq(dfx, LAMBDA r : normalise(r.overall_quality) = SUBSTANDARD_TOKEN),
                     "substandard_cases", <<>>)
            ELSE <<>>
        saf_grouped ==
            IF n_safety_unsafe # 0
            THEN group_params(
                     SelectSeq(dfx, LAMBDA r : normalise(r.overall_safety) = UNSAFE_TOKEN),
                     "unsafe_cases", <<>>)
            ELSE <<>>
        root_label == format_node_label(commodity \o <<" - ">> \o variant_choice,
                                        <<n_total>>, << [num |-> 100, den |-> 1] >>)
        comp_label == format_node_label(<<"Compliant">>, <<n_compliant>>, <<pct(n_compliant, n_total)>>)
        noncomp_label ==
            format_node_label(<<"Non-Compliant">>, <<n_noncompliant>>, <<pct(n_noncompliant, n_total)>>)
        dot_lines ==
            << [kind |-> "digraph"],
               [kind |-> "rankdir", value |-> "TB"],
               [kind |-> "graph", splines |-> "ortho",
                nodesep |-> st.nodesep, ranksep |-> st.ranksep],
               [kind |-> "node_defaults", shape |-> st.node_shape, style |-> "rounded,filled",
                color |-> "#d0d0d0", fillcolor |-> st.default_color,
                fontname |-> st.fontname, fontsize |-> st.fontsize],
               [kind |-> "edge_defaults", fontname |-> st.fontname,
                fontsize |-> max(8, st.fontsize - 2), arrowhead |-> "normal"],
               NodeStmt(<<"root">>, root_label, <<>>),
               NodeStmt(<<"comp">>, comp_label, <<st.compliant_color>>),
               NodeStmt(<<"noncomp">>, noncomp_label, <<st.noncompliant_color>>),
               EdgeStmt(<< <<(<<"root">>), (<<"comp">>)>>, <<(<<"root">>), (<<"noncomp">>)>> >>),
               NodeStmt(<<"qual">>,
                        format_node_label(<<"Quality Parameters">>, <<n_quality_sub>>,
                                          <<pct(n_quality_sub, n_total)>>), <<>>),
               NodeStmt(<<"saf">>,
                        format_node_label(<<"Safety Parameters">>, <<n_safety_unsafe>>,
                                          <<pct(n_safety_unsafe, n_total)>>), <<>>),
               NodeStmt(<<"lab">>,
                        format_node_label(<<"Labelling Parameters">>, <<n_lab_mis>>,
                                          <<pct(n_lab_mis, n_total)>>), <<>>),
               EdgeStmt(<< <<(<<"noncomp">>), (<<"qual">>)>>, <<(<<"noncomp">>), (<<"saf">>)>>,
                           <<(<<"noncomp">>), (<<"lab">>)>> >>) >>
            \o branch_stmts(qual_grouped, "qtype", <<"qual">>, seed)
            \o branch_stmts(saf_grouped, "stype", <<"saf">>, seed)
            \o << [kind |-> "close"] >>
    IN IF n_total = 0
       THEN [status |-> "error",
             message |-> <<"No rows for ">> \o commodity \o <<" / ">> \o variant_choice]
       ELSE [status |-> "ok",
             dot |-> dot_lines,
             stats |-> [total |-> n_total],
             records |-> branch_records(qual_grouped, "Quality", commodity, variant_choice)
                         \o branch_records(saf_grouped, "Safety", commodity, variant_choice),
             locals |-> [n_total |-> n_total, n_compliant |-> n_compliant,
                         n_noncompliant |-> n_noncompliant, n_quality_sub |-> n_quality_sub,
                         n_safety_unsafe |-> n_safety_unsafe, n_lab_mis |-> n_lab_mis,
                         qual_grouped |-> qual_grouped, saf_grouped |-> saf_grouped]]

(***************************************************************************)
(* Inputs of the tokenizer                                                 *)
(***************************************************************************)
Atoms ==
    { <<"c","o","m","p","l","i","a","n","c","e">>,
      <<"C","o","m","p","l","i","a","n","c","e">>,
      <<"a">>, <<"b">>, <<" ">>, <<",">>, <<";">>, <<"\n">>, <<"|">> }

RECURSIVE AtomSeqs(_)
AtomSeqs(n) ==
    IF n = 0 THEN { <<>> }
    ELSE LET shorter == AtomSeqs(n - 1)
         IN shorter \cup {s \o a : s \in shorter, a \in Atoms}

ExampleCells ==
    { <<"A","f","l","a","t","o","x","i","n",","," ","p","p","m"," ",
        "C","o","m","p","l","i","a","n","c","e"," ",
        "L","e","a","d",","," ","p","p","m"," ",
        "C","o","m","p","l","i","a","n","c","e">>,
      <<"L","e","a","d",";"," ","C","a","d","m","i","u","m",";"," ",
        "A","r","s","e","n","i","c">>,
      <<"L","e","a","d",","," ","C","a","d","m","i","u","m">> }

Cells == {None, NaN} \cup AtomSeqs(MaxAtoms) \cup ExampleCells

(***************************************************************************)
(* Inputs of build_tree_dot                                                *)
(***************************************************************************)
Rice == <<"R","i","c","e">>
Wheat == <<"W","h","e","a","t">>
Packed == <<"P","a","c","k","e","d">>
CompliantVerdict == <<"C","o","m","p","l","i","a","n","t"," ","a","s"," ","p","e","r"," ","F","S","S","R">>
NonCompliantVerdict == <<"N","o","n","-","C","o","m","p","l","i","a","n","t">>
SubStandardVerdict == <<"S","u","b","-","S","t","a","n","d","a","r","d">>
StandardVerdict == <<"S","t","a","n","d","a","r","d">>
UnsafeVerdict == <<"U","n","s","a","f","e">>
SafeVerdict == <<"S","a","f","e">>
MisbrandedVerdict == <<"M","i","s","b","r","a","n","d","e","d">>
Chemical == <<"C","h","e","m">>
Micro == <<"M","i","c","r","o">>

MkRow(c, v, comp, q, sf, l, sub, uns, tt) ==
    [commodity |-> c, variant |-> v, overall_compliance |-> comp, overall_quality |-> q,
     overall_safety |-> sf, overall_labelling |-> l, substandard_cases |-> sub,
     unsafe_cases |-> uns, test_type |-> tt]

\* rows with parameter cells
ParamRows ==
    \* quality failures
    { MkRow(Rice, Packed, NonCompliantVerdict, SubStandardVerdict, SafeVerdict, NaN, sub, NaN, Chemical) :
        sub \in { <<"a">>, <<"c">>, <<"a",";","c">> } }
    \cup
    { MkRow(Rice, Packed, NonCompliantVerdict, SubStandardVerdict, SafeVerdict, NaN, <<"a">>, NaN, Micro) }
    \cup
    \* safety failures
    { MkRow(Rice, Packed, NonCompliantVerdict, StandardVerdict, UnsafeVerdict, NaN, NaN, uns, Chemical) :
        uns \in { <<"a">>, <<"a","|","c">> } }
    \cup
    \* both at once, a passing row whose cell is filled, a blank test type,
    \* a row of the other variant
    { MkRow(Rice, Packed, NonCompliantVerdict, SubStandardVerdict, UnsafeVerdict, NaN,
            <<"a">>, <<"c">>, Chemical),
      MkRow(Rice, Packed, CompliantVerdict, StandardVerdict, SafeVerdict, NaN,
            <<"a">>, NaN, Chemical),
      MkRow(Rice, Packed, NonCompliantVerdict, SubStandardVerdict, SafeVerdict, NaN,
            <<"c">>, NaN, NaN),
      MkRow(Rice, NaN, NonCompliantVerdict, SubStandardVerdict, SafeVerdict, NaN,
            <<"a">>, NaN, Chemical) }

\* rows that vary the four verdicts only
CountRows ==
    { MkRow(Rice, Packed, comp, f[1], f[2], f[3], NaN, NaN, Chemical) :
        comp \in {CompliantVerdict, NonCompliantVerdict},
        f \in { <<StandardVerdict, SafeVerdict, NaN>>,
                <<SubStandardVerdict, SafeVerdict, NaN>>,
                <<StandardVerdict, UnsafeVerdict, NaN>>,
                <<StandardVerdict, SafeVerdict, MisbrandedVerdict>>,
                <<SubStandardVerdict, UnsafeVerdict, MisbrandedVerdict>> } }
    \cup
    { MkRow(Rice, NaN, CompliantVerdict, StandardVerdict, SafeVerdict, NaN,
            NaN, NaN, Chemical) }

\* the dataset of the end-to-end scenario: 10 rows, 6 of them compliant
TenRows ==
    [i \in 1..10 |->
        MkRow(Rice, Packed, IF i <= 6 THEN CompliantVerdict ELSE NonCompliantVerdict,
              StandardVerdict, SafeVerdict, NaN, NaN, NaN, Chemical)]

\* rows with one free-form verdict text each
MessyRows ==
    { MkRow(Rice, Packed, comp, StandardVerdict, SafeVerdict, NaN, NaN, NaN, Chemical) :
        comp \in { <<" ","c","o","m","p","l","i","a","n","t"," ","a","s"," ","p","e","r"," ","F","S","S","R","\n">>,
                   <<"C","O","M","P","L","I","A","N","T"," ","A","S"," ","P","E","R"," ","F","S","S","R">>,
                   <<"C","o","m","p","l","i","a","n","t"," ","a","s"," ","p","e","r"," ","F","S","S","R",".">>,
                   <<"C","o","m","p","l","i","a","n","t">>,
                   NaN } }
    \cup
    { MkRow(Rice, Packed, NonCompliantVerdict, q, SafeVerdict, NaN, NaN, NaN, Chemical) :
        q \in { <<"S","U","B","-","S","T","A","N","D","A","R","D"," ">>,
                <<"S","u","b"," ","S","t","a","n","d","a","r","d">>,
                <<"S","u","b","-","S","t","a","n","d","a","r","d"," ","x">>,
                SubStandardVerdict } }
    \cup
    { MkRow(Rice, Packed, NonCompliantVerdict, StandardVerdict, sf, NaN, NaN, NaN, Chemical) :
        sf \in { <<"\t","U","N","S","A","F","E">>,
                 <<"u","n","s","a","f","e"," ","f","o","o","d">>,
                 UnsafeVerdict } }
    \cup
    { MkRow(Rice, Packed, NonCompliantVerdict, StandardVerdict, SafeVerdict, l, NaN, NaN, Chemical) :
        l \in { <<"M","i","s","-","B","r","a","n","d","e","d"," ","-"," ","i","n","c","o","r","r","e","c","t"," ","F","S","S","A","I"," ","l","o","g","o">>,
                <<"M","I","S","B","R","A","N","D","E","D">>,
                <<"P","a","c","k"," ","m","i","s"," ","l","a","b","e","l","e","d">>,
                <<"M","i","s","l","a","b","e","l","l","e","d">>,
                <<"C","o","m","p","l","i","a","n","t">> } }

RECURSIVE SeqsUpTo(_, _)
SeqsUpTo(S, n) ==
    IF n = 0 THEN { <<>> }
    ELSE LET shorter == SeqsUpTo(S, n - 1)
         IN shorter \cup {Append(d, r) : d \in shorter, r \in S}

Commodities == {Rice, Wheat}
VariantChoices == {Packed, MISSING}

\* the sidebar's initial values and a second choice of every widget
DefaultSettings ==
    [rankdir |-> "TB", fontname |-> "Helvetica", fontsize |-> 12, node_shape |-> "box",
     nodesep |-> "0.5", ranksep |-> "0.6", default_color |-> "#ffffff",
     compliant_color |-> "#d4edda", noncompliant_color |-> "#f8d7da"]
OtherSettings ==
    [rankdir |-> "LR", fontname |-> "Arial", fontsize |-> 9, node_shape |-> "ellipse",
     nodesep |-> "1.0", ranksep |-> "1.2", default_color |-> "#eeeeee",
     compliant_color |-> "#00ff00", noncompliant_color |-> "#ff0000"]
SettingsChoices == {DefaultSettings, OtherSettings}

Seeds == 0..(NumSeeds - 1)

NoCall == "NoCall"    \* status of result before the first call

(***************************************************************************)
(* The application: a dataset is uploaded, then trees are built for        *)
(* (commodity, variant) selections; a widget change reruns the script in   *)
(* the same process, a restart of the server draws a new hash key.         *)
(***************************************************************************)
InitWith(datasets, seeds) ==
    /\ df \in datasets
    /\ hashseed \in seeds
    /\ settings = DefaultSettings
    /\ result = [status |-> NoCall]
    /\ cell = None
    /\ toks = [done |-> FALSE, out |-> <<>>]

Init == InitWith(SeqsUpTo(ParamRows, MaxRows), Seeds)
\* datasets without parameter cells: no name is hashed, one key is enough
InitCount == InitWith(SeqsUpTo(CountRows, MaxCountRows) \cup {TenRows}, {0})
InitMessy == InitWith(SeqsUpTo(MessyRows, MaxMessyRows), Seeds)

BuildTree ==
    /\ \E c \in Commodities, v \in VariantChoices :
          result' = build_tree_dot(df, c, v, settings, hashseed)
                    @@ [commodity |-> c, variant |-> v, settings |-> settings]
    /\ UNCHANGED <<df, hashseed, settings, cell, toks>>

SetStyle ==
    /\ \E st \in SettingsChoices \ {settings} : settings' = st
    /\ UNCHANGED <<df, hashseed, result, cell, toks>>

Restart ==
    /\ \E k \in Seeds \ {hashseed} : hashseed' = k
    /\ UNCHANGED <<df, settings, result, cell, toks>>

Next == BuildTree \/ SetStyle \/ Restart

Spec == Init /\ [][Next]_vars

\* the classification alone, on datasets that vary the verdicts
NextCount == BuildTree
SpecCount == InitCount /\ [][NextCount]_vars
SpecMessy == InitMessy /\ [][NextCount]_vars

(***************************************************************************)
(* The tokenizer as a state machine: a cell is drawn, then tokenized       *)
(***************************************************************************)
InitTok ==
    /\ df = <<>>
    /\ hashseed = 0
    /\ settings = DefaultSettings
    /\ result = [status |-> NoCall]
    /\ cell \in Cells
    /\ toks = [done |-> FALSE, out |-> <<>>]

Tokenize ==
    /\ ~toks.done
    /\ toks' = [done |-> TRUE, out |-> split_parameters(cell)]
    /\ UNCHANGED <<df, hashseed, settings, result, cell>>

NextTok == Tokenize

SpecTok == InitTok /\ [][NextTok]_vars

(***************************************************************************)
(* format_node_label as a state machine: its arguments are drawn, then the *)
(* label is formatted                                                      *)
(***************************************************************************)
LabelTitles == { Rice, <<"Quality Parameters">>, <<"a", " ", "b">> }
LabelCounts == { <<>> } \cup { <<n>> : n \in 0..MaxLabelCount }
LabelPcts == { <<>> } \cup { << pct(k, t) >> : k \in 0..MaxLabelCount, t \in 1..MaxLabelCount }

InitLabel == InitWith({ <<>> }, {0})

FormatLabel ==
    /\ result.status = NoCall
    /\ \E title \in LabelTitles, count \in LabelCounts, p \in LabelPcts :
          result' = [status |-> "label", title |-> title, count |-> count, pct |-> p,
                     label |-> format_node_label(title, count, p)]
    /\ UNCHANGED <<df, hashseed, settings, cell, toks>>

NextLabel == FormatLabel

SpecLabel == InitLabel /\ [][NextLabel]_vars

(***************************************************************************)
(* Claims about the tokenizer                                              *)
(***************************************************************************)
\* positions of text that belong to a whole-word occurrence of the marker
MarkerStarts(text) == {i \in 1..Len(text) : marker_match(text)[i] > 0}
InMarker(text, i) ==
    \E p \in MarkerStarts(text) : p <= i /\ i < p + Len(PARAM_END_TOKEN)

\* the non-empty stretches of text between marker occurrences, left to right
RECURSIVE FragmentsFrom(_, _)
FragmentsFrom(text, i) ==
    IF i > Len(text) THEN <<>>
    ELSE IF InMarker(text, i) THEN FragmentsFrom(text, i + 1)
    ELSE LET stop == Min({j \in i..Len(text) : j = Len(text) \/ InMarker(text, j + 1)})
         IN << SubSeq(text, i, stop) >> \o FragmentsFrom(text, stop + 1)

\* trimmed of surrounding whitespace, commas and semicolons; empties dropped
TrimmedFragments(text) ==
    LET frs == FragmentsFrom(text, 1)
        trimmed == [k \in 1..Len(frs) |-> strip_chars(frs[k], Whitespace \cup {",", ";"})]
    IN SelectSeq(trimmed, LAMBDA f : f # <<>>)

\* C10: a cell with at least one whole-word marker is split into the
\* fragments between the marker occurrences, in order, each trimmed of
\* surrounding whitespace, commas and semicolons, empty fragments dropped.
C10_MarkerFragments ==
    (toks.done /\ cell # None /\ MarkerStarts(cell) # {})
        => toks.out = TrimmedFragments(cell)

DelimiterChars == {"\n", "\r", ";", "|"}
TrimChars == Whitespace \cup {",", ";"}
IsBlank(text) == \A i \in 1..Len(text) : text[i] \in Whitespace

\* the non-empty stretches of text between delimiter characters, left to right
RECURSIVE StretchesFrom(_, _)
StretchesFrom(text, i) ==
    IF i > Len(text) THEN <<>>
    ELSE IF text[i] \in DelimiterChars THEN StretchesFrom(text, i + 1)
    ELSE LET stop == Min({j \in i..Len(text) :
                             j = Len(text) \/ text[j + 1] \in DelimiterChars})
         IN << SubSeq(text, i, stop) >> \o StretchesFrom(text, stop + 1)

\* trimmed of surrounding whitespace, commas and semicolons; empties dropped
DelimitedFragments(text) ==
    LET frs == StretchesFrom(text, 1)
        trimmed == [k \in 1..Len(frs) |-> strip_chars(frs[k], TrimChars)]
    IN SelectSeq(trimmed, LAMBDA f : f # <<>>)

\* C11: a non-blank cell without a whole-word marker is split at every
\* newline, carriage return, semicolon and pipe character, and the trimmed
\* fragments are returned in order.
C11_DelimiterFragments ==
    (toks.done /\ cell \notin {None, NaN} /\ ~IsBlank(cell) /\ MarkerStarts(cell) = {})
        => toks.out = DelimitedFragments(cell)

\* C12: an absent cell, the empty string and a cell of whitespace only give
\* the empty list.
C12_EmptyForAbsentOrBlank ==
    (toks.done /\ (cell = None \/ IsBlank(cell))) => toks.out = <<>>

\* a cell of two whitespace characters
C12_Witness ==
    /\ toks.done
    /\ cell # None /\ Len(cell) = 2 /\ IsBlank(cell)
    /\ toks.out = <<>>

\* C14: tokenizing a returned fragment gives that fragment back, alone.
C14_ConfluentOnOutput ==
    toks.done => \A k \in 1..Len(toks.out) :
                    split_parameters(toks.out[k]) = << toks.out[k] >>

\* C18: no returned fragment is empty once whitespace, commas and
\* semicolons are trimmed from it.
C18_NoEmptyFragment ==
    toks.done => \A k \in 1..Len(toks.out) : strip_chars(toks.out[k], TrimChars) # <<>>

(***************************************************************************)
(* Claims about build_tree_dot                                             *)
(***************************************************************************)
Called == result.status # NoCall
Ok == result.status = "ok"
Failed == result.status = "error"

\* the rows of df that the call's (commodity, variant) selects: the variant
\* of a row with a missing variant cell reads "(missing)"
SubsetIdx ==
    {i \in 1..Len(df) :
        /\ df[i].commodity = result.commodity
        /\ \/ df[i].variant = result.variant
           \/ (df[i].variant = NaN /\ result.variant = MISSING)}

NodesOf(dot) == {dot[i] : i \in {j \in 1..Len(dot) : dot[j].kind = "node"}}
EdgesOf(dot) ==
    UNION {Range(dot[i].edges) : i \in {j \in 1..Len(dot) : dot[j].kind = "edges"}}

\* ds spells n in decimal, without sign or leading zero
IsDigit(c) == c \in Range(DigitChars)
DigitValue(c) == (CHOOSE i \in 1..10 : DigitChars[i] = c) - 1
RECURSIVE DecValue(_)
DecValue(ds) ==
    IF ds = <<>> THEN 0
    ELSE 10 * DecValue(SubSeq(ds, 1, Len(ds) - 1)) + DigitValue(ds[Len(ds)])
SpellsNumber(ds, n) ==
    /\ ds # <<>>
    /\ \A i \in 1..Len(ds) : IsDigit(ds[i])
    /\ (Len(ds) = 1 \/ ds[1] # "0")
    /\ DecValue(ds) = n

\* ps spells, with exactly one decimal, a tenth nearest to 100 * k / total
SpellsPercentage(ps, k, total) ==
    /\ Len(ps) >= 3
    /\ ps[Len(ps) - 1] = "."
    /\ IsDigit(ps[Len(ps)])
    /\ LET whole == SubSeq(ps, 1, Len(ps) - 2)
       IN /\ \A i \in 1..Len(whole) : IsDigit(whole[i])
          /\ (Len(whole) = 1 \/ whole[1] # "0")
          /\ LET tenths == 10 * DecValue(whole) + DigitValue(ps[Len(ps)])
             IN 2 * abs(tenths * total - 1000 * k) <= total

\* label is title, the line-break escape, and "[n Samples; P%]" where P is
\* 100 * k / total to one decimal
IsCountPctLabel(label, title, n, k, total) ==
    LET m == Len(title)
        seps == {i \in 1..Len(label) : label[i] = " Samples; "}
    IN /\ Len(label) >= m + 5
       /\ SubSeq(label, 1, m) = title
       /\ label[m + 1] = "\\n["
       /\ label[Len(label)] = "%]"
       /\ Cardinality(seps) = 1
       /\ LET i == CHOOSE j \in seps : TRUE
          IN /\ SpellsNumber(SubSeq(label, m + 2, i - 1), n)
             /\ SpellsPercentage(SubSeq(label, i + 1, Len(label) - 1), k, total)

HasNode(dot, id, title, n, k, total) ==
    \E nd \in NodesOf(dot) : nd.id = id /\ IsCountPctLabel(nd.label, title, n, k, total)

\* C1: for a non-empty subset, total is the number of selected rows,
\* compliant and non_compliant are non-negative and add up to total.
C1_CompliantPlusNonCompliant ==
    Ok => LET L == result.locals
          IN /\ L.n_total = Cardinality(SubsetIdx)
             /\ L.n_compliant \in Nat
             /\ L.n_noncompliant \in Nat
             /\ L.n_compliant + L.n_noncompliant = L.n_total

C1_Witness ==
    /\ Ok
    /\ result.locals.n_compliant > 0
    /\ result.locals.n_noncompliant > 0
    /\ result.locals.n_total < Len(df)

\* C2: when the selection has no row the call fails with an error that names
\* the commodity and the variant, and returns no graph, statistics or records.
C2_EmptySubsetFails ==
    (Called /\ SubsetIdx = {})
        => /\ Failed
           /\ contains(result.message, result.commodity)
           /\ contains(result.message, result.variant)
           /\ DOMAIN result \cap {"dot", "stats", "records"} = {}

C2_Witness == Failed /\ Len(df) > 0 /\ SubsetIdx = {}

\* C3: a call with the same dataset, selection and style as the previous
\* call returns the same graph description, also after a restart.
C3_ByteIdentical ==
    [][ ( /\ Ok
          /\ result'.status = "ok"
          /\ df' = df
          /\ result'.commodity = result.commodity
          /\ result'.variant = result.variant
          /\ result'.settings = result.settings )
        => result'.dot = result.dot ]_vars

\* C4: no two node statements of a graph description have the same
\* identifier.
C4_UniqueNodeIds ==
    Ok => \A i, j \in 1..Len(result.dot) :
             ( /\ i # j
               /\ result.dot[i].kind = "node"
               /\ result.dot[j].kind = "node" )
             => result.dot[i].id # result.dot[j].id

\* C5: each sub-category count is at most non_compliant.
C5_SubCountsWithinNonCompliant ==
    Ok => LET L == result.locals
          IN /\ L.n_quality_sub <= L.n_noncompliant
             /\ L.n_safety_unsafe <= L.n_noncompliant
             /\ L.n_lab_mis <= L.n_noncompliant

\* C6: the statistics record has the six integer entries, equal to the
\* values the tree was built from, and the frequency maps of both branches.
C6_StatisticsRecord ==
    Ok => /\ {"total", "compliant", "non_compliant", "quality_substandard",
              "safety_unsafe", "labelling_mis"} \subseteq DOMAIN result.stats
          /\ result.stats.total = result.locals.n_total
          /\ result.stats.compliant = result.locals.n_compliant
          /\ result.stats.non_compliant = result.locals.n_noncompliant
          /\ result.stats.quality_substandard = result.locals.n_quality_sub
          /\ result.stats.safety_unsafe = result.locals.n_safety_unsafe
          /\ result.stats.labelling_mis = result.locals.n_lab_mis
          /\ Cardinality(DOMAIN result.stats) >= 8

\* C7: the document has the root node "<commodity> - <variant>" with
\* "[total Samples; 100.0%]", the Compliant node with k and 100k/total to
\* one decimal, the Non-Compliant node with total-k and its percentage, and
\* the edges root->comp and root->noncomp.
C7_RootCompliantNonCompliant ==
    Ok => LET total == Cardinality(SubsetIdx)
              k == Cardinality({i \in SubsetIdx : df[i].overall_compliance = CompliantVerdict})
              dot == result.dot
          IN /\ HasNode(dot, <<"root">>, result.commodity \o <<" - ">> \o result.variant,
                        total, total, total)
             /\ HasNode(dot, <<"comp">>, <<"Compliant">>, k, k, total)
             /\ HasNode(dot, <<"noncomp">>, <<"Non-Compliant">>, total - k, total - k, total)
             /\ << <<"root">>, <<"comp">> >> \in EdgesOf(dot)
             /\ << <<"root">>, <<"noncomp">> >> \in EdgesOf(dot)

\* the scenario of 10 rows with 6 compliant, and a subset of thirds
C7_Witness ==
    /\ Ok
    /\ \/ (Cardinality(SubsetIdx) = 10 /\ result.locals.n_compliant = 6)
       \/ (Cardinality(SubsetIdx) = 3 /\ result.locals.n_compliant = 2)

\* C8: the Quality, Safety and Labelling nodes are the three children of
\* the Non-Compliant node, whatever their counts, each labelled with its
\* count n and with n / total * 100 to one decimal, total being the size of
\* the selected subset.
C8_BucketNodes ==
    Ok => LET total == Cardinality(SubsetIdx)
              nq == Cardinality({i \in SubsetIdx : df[i].overall_quality = SubStandardVerdict})
              ns == Cardinality({i \in SubsetIdx : df[i].overall_safety = UnsafeVerdict})
              nl == Cardinality({i \in SubsetIdx : df[i].overall_labelling = MisbrandedVerdict})
              dot == result.dot
          IN /\ HasNode(dot, <<"qual">>, <<"Quality Parameters">>, nq, nq, total)
             /\ HasNode(dot, <<"saf">>, <<"Safety Parameters">>, ns, ns, total)
             /\ HasNode(dot, <<"lab">>, <<"Labelling Parameters">>, nl, nl, total)
             /\ {e[2] : e \in {f \in EdgesOf(dot) : f[1] = <<"noncomp">>}}
                    = { <<"qual">>, <<"saf">>, <<"lab">> }

\* a bucket with count 0 next to a bucket whose share of the total differs
\* from its share of the non-compliant rows
C8_Witness ==
    /\ Ok
    /\ result.locals.n_safety_unsafe = 0
    /\ result.locals.n_quality_sub = 1
    /\ result.locals.n_noncompliant = 2
    /\ result.locals.n_total = 3

\* r and t are the same character once r is lower-cased
FoldsTo(r, t) == r = t \/ \E i \in 1..26 : r = UpperChars[i] /\ t = LowerChars[i]
MatchesAt(raw, o, tok) ==
    /\ o + Len(tok) <= Len(raw)
    /\ \A k \in 1..Len(tok) : FoldsTo(raw[o + k], tok[k])
\* raw is tok up to letter case and surrounding whitespace
IsVerdict(raw, tok) ==
    \E o \in 0..Len(raw) :
        /\ MatchesAt(raw, o, tok)
        /\ \A i \in 1..Len(raw) : (i <= o \/ i > o + Len(tok)) => raw[i] \in Whitespace
\* raw contains tok up to letter case
MentionsVerdict(raw, tok) == \E o \in 0..Len(raw) : MatchesAt(raw, o, tok)

CellText(v) == IF v = NaN THEN <<"n","a","n">> ELSE v

MisLabellingSynonyms ==
    { <<"m","i","s","-","l","a","b","e","l","l","e","d">>,
      <<"m","i","s","-","l","a","b","e","l","e","d">>,
      <<"m","i","s","b","r","a","n","d","e","d">>,
      <<"m","i","s","-","b","r","a","n","d","e","d">>,
      <<"m","i","s"," ","b","r","a","n","d","e","d">>,
      <<"m","i","s"," ","l","a","b","e","l","l","e","d">>,
      <<"m","i","s"," ","l","a","b","e","l","e","d">> }

MisBrandedExample ==
    <<"M","i","s","-","B","r","a","n","d","e","d"," ","-"," ","i","n","c","o","r","r","e","c","t",
      " ","F","S","S","A","I"," ","l","o","g","o">>

\* C9: a row is compliant iff its verdict, trimmed and lower-cased, is
\* "compliant as per fssr"; quality-substandard iff it is "sub-standard";
\* safety-unsafe iff it is "unsafe"; mis-labelled iff it contains one of the
\* seven synonyms.
C9_NormalisedClassification ==
    Ok => LET L == result.locals
              Count(col, Test(_)) ==
                  Cardinality({i \in SubsetIdx : Test(CellText(df[i][col]))})
          IN /\ L.n_compliant =
                  Count("overall_compliance",
                        LAMBDA t : IsVerdict(t, <<"c","o","m","p","l","i","a","n","t"," ","a","s",
                                                  " ","p","e","r"," ","f","s","s","r">>))
             /\ L.n_quality_sub =
                  Count("overall_quality",
                        LAMBDA t : IsVerdict(t, <<"s","u","b","-","s","t","a","n","d","a","r","d">>))
             /\ L.n_safety_unsafe =
                  Count("overall_safety", LAMBDA t : IsVerdict(t, <<"u","n","s","a","f","e">>))
             /\ L.n_lab_mis =
                  Count("overall_labelling",
                        LAMBDA t : \E syn \in MisLabellingSynonyms : MentionsVerdict(t, syn))

\* the labelling example is counted
C9_Witness ==
    /\ Ok
    /\ result.locals.n_lab_mis = 1
    /\ \E i \in SubsetIdx : df[i].overall_labelling = MisBrandedExample

\* the nodes that the edges of dot lead to from the node id
ChildrenOf(dot, id) == {e[2] : e \in {f \in EdgesOf(dot) : f[1] = id}}

\* an absent or blank cell, or one made of delimiter characters only
Malformed(v) ==
    \/ v \in {None, NaN}
    \/ \A i \in 1..Len(v) : v[i] \in Whitespace \cup DelimiterChars \cup {","}

\* C13: rows whose parameter cell is absent, blank or made of delimiters
\* only contribute no parameter: when every sub-standard (resp. unsafe) row
\* of the subset has such a cell, the Quality (resp. Safety) node has no
\* test-type child.
C13_MalformedCellsContributeNothing ==
    Ok => /\ (\A i \in SubsetIdx : df[i].overall_quality = SubStandardVerdict
                                      => Malformed(df[i].substandard_cases))
                => ChildrenOf(result.dot, <<"qual">>) = {}
          /\ (\A i \in SubsetIdx : df[i].overall_safety = UnsafeVerdict
                                      => Malformed(df[i].unsafe_cases))
                => ChildrenOf(result.dot, <<"saf">>) = {}

\* C15: the layout direction, spacings, node shape, fonts and fill colours
\* of the style configuration are the ones of the graph description.
C15_StylePassedThrough ==
    Ok => LET st == result.settings
              dot == result.dot
              Has(kind, Test(_)) == \E i \in 1..Len(dot) : dot[i].kind = kind /\ Test(dot[i])
          IN /\ Has("rankdir", LAMBDA x : x.value = st.rankdir)
             /\ Has("graph", LAMBDA x : x.nodesep = st.nodesep /\ x.ranksep = st.ranksep)
             /\ Has("node_defaults", LAMBDA x : /\ x.shape = st.node_shape
                                                /\ x.fillcolor = st.default_color
                                                /\ x.fontname = st.fontname
                                                /\ x.fontsize = st.fontsize)
             /\ Has("edge_defaults", LAMBDA x : x.fontname = st.fontname)
             /\ Has("node", LAMBDA x : x.id = <<"comp">> /\ x.fillcolor = <<st.compliant_color>>)
             /\ Has("node", LAMBDA x : x.id = <<"noncomp">>
                                       /\ x.fillcolor = <<st.noncompliant_color>>)

\* C17: each sub-category count is at most total, and it is the number of
\* rows of the subset with that verdict, whatever the other verdicts of
\* these rows are: a row that is sub-standard and unsafe is counted in both,
\* and of two datasets that differ in one verdict of one row the counts of
\* the other two sub-categories are the same.
C17_SubCountsIndependent ==
    Ok => LET L == result.locals
              total == Cardinality(SubsetIdx)
              With(col, verdict) == {i \in SubsetIdx : df[i][col] = verdict}
          IN /\ L.n_quality_sub <= total
             /\ L.n_safety_unsafe <= total
             /\ L.n_lab_mis <= total
             /\ L.n_quality_sub = Cardinality(With("overall_quality", SubStandardVerdict))
             /\ L.n_safety_unsafe = Cardinality(With("overall_safety", UnsafeVerdict))
             /\ L.n_lab_mis = Cardinality(With("overall_labelling", MisbrandedVerdict))

\* a row flagged sub-standard, unsafe and mis-labelled at once, next to a
\* row that is sub-standard only
C17_Witness ==
    /\ Ok
    /\ \E i \in SubsetIdx : /\ df[i].overall_quality = SubStandardVerdict
                            /\ df[i].overall_safety = UnsafeVerdict
    /\ result.locals.n_quality_sub = 2
    /\ result.locals.n_safety_unsafe = 1

\* label is title, the line-break escape, and "[n Sample]" for n = 1 or
\* "[n Samples]" otherwise: a count without a percentage
IsCountLabel(label, title, n) ==
    LET m == Len(title)
        e == Len(label)
    IN /\ e >= m + 5
       /\ SubSeq(label, 1, m) = title
       /\ label[m + 1] = "\\n["
       /\ SpellsNumber(SubSeq(label, m + 2, e - 3), n)
       /\ label[e - 2] = " "
       /\ label[e - 1] = (IF n = 1 THEN "Sample" ELSE "Samples")
       /\ label[e] = "]"

\* the title and the count that a label with a count shows
BreakAt(label) == Min({i \in 1..Len(label) : label[i] = "\\n["})
LabelTitle(label) == SubSeq(label, 1, BreakAt(label) - 1)
LabelCount(label) == DecValue(SubSeq(label, BreakAt(label) + 1, Len(label) - 3))

\* s comes before t in the order of str: by the code of the first character
\* that differs, a proper prefix first
LexLess(s, t) ==
    \E k \in 1..(Len(t)) :
        /\ \A j \in 1..(k - 1) : j <= Len(s) /\ s[j] = t[j]
        /\ (k > Len(s) \/ (k <= Len(s) /\ ord(s[k]) < ord(t[k])))

\* the node statements that dot has for the children of the node id
ChildStmts(dot, id) ==
    {i \in 1..Len(dot) : dot[i].kind = "node" /\ <<id, dot[i].id>> \in EdgesOf(dot)}

\* C16: under each test-type node the parameter leaves are emitted by
\* descending count, leaves of equal count by ascending name.
C16_LeavesInDisplayOrder ==
    Ok => \A b \in { <<"qual">>, <<"saf">> } :
            \A t \in ChildStmts(result.dot, b) :
              \A i, j \in ChildStmts(result.dot, result.dot[t].id) :
                 i < j =>
                   LET li == result.dot[i].label
                       lj == result.dot[j].label
                   IN \/ LabelCount(li) > LabelCount(lj)
                      \/ /\ LabelCount(li) = LabelCount(lj)
                         /\ LexLess(LabelTitle(li), LabelTitle(lj))

\* the label that the node id has in the graph: a later statement for an
\* identifier replaces the attributes of an earlier one
LabelOf(dot, id) ==
    dot[Max({i \in 1..Len(dot) : dot[i].kind = "node" /\ dot[i].id = id})].label

\* the parameters of a cell of delimited names
CellTokens(v) == IF v \in {None, NaN} THEN <<>> ELSE DelimitedFragments(v)

\* the branches: bucket node, verdict column and failing verdict, cell column
Branches ==
    { [bucket |-> <<"qual">>, col |-> "overall_quality", verdict |-> SubStandardVerdict,
       cases |-> "substandard_cases"],
      [bucket |-> <<"saf">>, col |-> "overall_safety", verdict |-> UnsafeVerdict,
       cases |-> "unsafe_cases"] }

\* rows of the subset with the branch's failing verdict and the test type tt
BranchRows(b, tt) ==
    {i \in SubsetIdx : df[i][b.col] = b.verdict /\ df[i].test_type = tt}
\* the mentions (row, position) of parameters in these rows
MentionsIn(b, tt) ==
    UNION { {<<i, k>> : k \in 1..Len(CellTokens(df[i][b.cases]))} : i \in BranchRows(b, tt) }
MentionedName(b, p) == CellTokens(df[p[1]][b.cases])[p[2]]
NamesIn(b, tt) == {MentionedName(b, p) : p \in MentionsIn(b, tt)}
Occurrences(b, tt, name) ==
    Cardinality({p \in MentionsIn(b, tt) : MentionedName(b, p) = name})
\* the test types of the branch that have a parameter
TestTypesOf(b) ==
    {tt \in {df[i].test_type : i \in SubsetIdx} : MentionsIn(b, tt) # {}}

\* the children of the node t are the leaves of the test type tt
LeavesOf(dot, t, b, tt) ==
    /\ Cardinality(ChildrenOf(dot, t)) = Cardinality(NamesIn(b, tt))
    /\ \A name \in NamesIn(b, tt) :
          \E n \in ChildrenOf(dot, t) :
              IsCountLabel(LabelOf(dot, n), name, Occurrences(b, tt, name))

\* C19: in each branch the test-type nodes correspond to the test types of
\* the rows with the failing verdict, and the leaves of a test-type node are
\* the distinct parameters of the cells of these rows, each labelled with
\* its name and its number of occurrences, without a percentage.
C19_LeavesPerTestType ==
    Ok => \A b \in Branches :
            /\ \A tt \in TestTypesOf(b) :
                  \E t \in ChildrenOf(result.dot, b.bucket) : LeavesOf(result.dot, t, b, tt)
            /\ \A t \in ChildrenOf(result.dot, b.bucket) :
                  \E tt \in TestTypesOf(b) : LeavesOf(result.dot, t, b, tt)

\* the titles a test type may show: a missing test type is left open here
TypeTitles(tt) == IF tt = NaN THEN { <<"n","a","n">>, <<"O","t","h","e","r">> } ELSE {tt}

\* C20: each test type of a branch has exactly one child node of the
\* bucket, labelled with the name of the test type and the number of
\* distinct parameters mentioned under it; the Labelling node has no child.
C20_TestTypeNodes ==
    Ok => /\ ChildrenOf(result.dot, <<"lab">>) = {}
          /\ \A b \in Branches :
               /\ Cardinality(ChildrenOf(result.dot, b.bucket)) = Cardinality(TestTypesOf(b))
               /\ \A tt \in TestTypesOf(b) :
                    Cardinality({t \in ChildrenOf(result.dot, b.bucket) :
                                    \E title \in TypeTitles(tt) :
                                        IsCountLabel(LabelOf(result.dot, t), title,
                                                     Cardinality(NamesIn(b, tt)))}) = 1

\* C21: the parameters of the rows of a branch whose test type is absent
\* are the leaves of a test-type node titled "Other".
C21_AbsentTestTypeIsOther ==
    Ok => \A b \in Branches :
            MentionsIn(b, NaN) # {}
              => \E t \in ChildrenOf(result.dot, b.bucket) :
                    /\ LabelTitle(LabelOf(result.dot, t)) = <<"O","t","h","e","r">>
                    /\ \A name \in NamesIn(b, NaN) :
                          \E n \in ChildrenOf(result.dot, t) :
                              LabelTitle(LabelOf(result.dot, n)) = name

\* the node statements of the children of the node id, one per identifier:
\* the statement that gives the node its label in the graph
LeafStmts(dot, id) ==
    {i \in ChildStmts(dot, id) : \A j \in ChildStmts(dot, id) : dot[j].id = dot[i].id => j <= i}

RECURSIVE SumOfCounts(_, _)
SumOfCounts(dot, S) ==
    IF S = {} THEN 0
    ELSE LET i == CHOOSE x \in S : TRUE
         IN LabelCount(dot[i].label) + SumOfCounts(dot, S \ {i})

\* C23: the count on a test-type node is the sum of the counts on its
\* parameter leaves, which is the number of parameter mentions, repeats
\* included, in the cells of its rows.
C23_TypeCountIsSumOfLeaves ==
    Ok => \A b \in Branches :
            /\ \A t \in ChildStmts(result.dot, b.bucket) :
                  LabelCount(result.dot[t].label)
                      = SumOfCounts(result.dot, LeafStmts(result.dot, result.dot[t].id))
            /\ \A tt \in TestTypesOf(b) :
                  \E t \in ChildStmts(result.dot, b.bucket) :
                      /\ LabelCount(result.dot[t].label) = Cardinality(MentionsIn(b, tt))
                      /\ LeavesOf(result.dot, result.dot[t].id, b, tt)

LeadCadmium == <<"L","e","a","d",","," ","C","a","d","m","i","u","m">>

\* C24: the comma rule is reached only by a text without the marker that is
\* made of newlines, carriage returns, semicolons, pipes and whitespace
\* alone, hence without a comma; a cell without the marker and without
\* these delimiters is returned as a single fragment, its commas included.
C24_CommaRuleNeverSplits ==
    (toks.done /\ cell \notin {None, NaN})
        => LET marker == MentionsVerdict(cell, <<"c","o","m","p","l","i","a","n","c","e">>)
               delimited == \E i \in 1..Len(cell) : cell[i] \in DelimiterChars
           IN /\ rule_reached(cell) = 3
                    => /\ ~marker
                       /\ \A i \in 1..Len(cell) : cell[i] \in DelimiterChars \cup Whitespace
              /\ (~marker /\ ~delimited /\ ~IsBlank(cell))
                    => /\ Len(toks.out) = 1
                       /\ strip_chars(toks.out[1], TrimChars) = strip_chars(cell, TrimChars)

\* the example 'Lead, Cadmium'
C24_Witness ==
    /\ toks.done
    /\ cell = LeadCadmium
    /\ toks.out = << LeadCadmium >>

Labelled == result.status = "label"

\* C22: with a count and a percentage the label is the title, the
\* line-break escape and "[N Samples; P%]" with P to one decimal; with a
\* count only it is "[N Sample]" for N = 1 and "[N Samples]" otherwise;
\* with neither it is the title alone.
C22_LabelSuffix ==
    Labelled =>
        LET c == result.count
            p == result.pct
        IN /\ (c # <<>> /\ p # <<>>)
                => IsCountPctLabel(result.label, result.title, c[1], p[1].num, 100 * p[1].den)
           /\ (c # <<>> /\ p = <<>>) => IsCountLabel(result.label, result.title, c[1])
           /\ (c = <<>> /\ p = <<>>) => result.label = result.title

\* a count of 1 without a percentage: the singular
C22_Witness ==
    /\ Labelled
    /\ result.count = <<1>>
    /\ result.pct = <<>>
    /\ result.label[Len(result.label) - 1] = "Sample"

=============================================================================
